---- MODULE Spec2Model ----
(***************************************************************************)
(* Model of the API rate limiter (src/app.py): a Flask reverse proxy with  *)
(* a per-client sliding hourly quota, a per-minute DDoS detector that      *)
(* blocks the client, a request-triggered cleanup and manual unblock.      *)
(*                                                                         *)
(* Time is time.time() in whole seconds.  The handlers are run by threads  *)
(* (app.run(threaded=True)) that share ip_requests, blocked_ips and stats  *)
(* without any lock, so every handler is a sequence of steps, one per      *)
(* access to the shared state, and the clock may advance between steps.    *)
(*                                                                         *)
(* Granularity: a step is one statement's access to shared state.  The     *)
(* snapshot list(d.keys()) is taken with the time.time() before it         *)
(* (lines 50-55), the two reads of the while condition (line 56) and the   *)
(* iteration of the deque (line 82) are each one step, and stats[k] += 1   *)
(* is a load and a store.  A KeyError or IndexError raised outside the     *)
(* try block of proxy_request is answered by server_error (lines 301-305). *)
(*                                                                         *)
(* SeqSpec runs the handlers one request at a time from the empty state;   *)
(* Spec runs two worker threads from the states a client reaches with its  *)
(* first requests; BurstSpec runs the handlers one request at a time from  *)
(* the state of a client one request short of the DDoS threshold.  In      *)
(* these the proxied requests are GETs without a query.  FwdSpec runs one  *)
(* request of any method, content and query through the forwarding code.   *)
(***************************************************************************)
EXTENDS Integers, Sequences, FiniteSets, TLC

----------------------------------------------------------------------------
(* Configuration (environment variables read at start-up, lines 26-28).     *)
(* The values are a small configuration; the code reads any integers.       *)
REQUESTS_PER_HOUR == 2
DDOS_REQUESTS_PER_MINUTE == 3
BLOCK_DURATION_MINUTES == 1

(* Literals of the code. *)
HourSeconds == 3600
MinuteSeconds == 60

(* Bounds of the model. *)
MaxTicks == 2
MaxRequests == 4
ConcMaxTicks == 2
ConcMaxRequests == 2
FwdMaxRequests == 1
BurstMaxRequests == 3

(* The clock advances by one of these amounts: 30+30 is the minute window  *)
(* and the block duration exactly, 30+3570 is the hour window exactly, and  *)
(* 3570+3570 is beyond the hour window.                                     *)
ClockSteps == {30, 3570}

IPs == {"a"}
ConcIPs == {"a"}
Threads == {1, 2}
\* "status" is /health or /stats: both run cleanup_old_data() and then only read
Ops == {"proxy", "status", "unblock"}
BackendResults == {"ok", "Timeout", "ConnectionError", "Exception"}
Labels == {"SUCCESS", "BLOCKED", "DDOS_BLOCKED", "RATE_LIMITED", "TIMEOUT",
           "CONNECTION_ERROR", "ERROR", "SERVER_ERROR", "total"}

\* line 193: the methods the proxy route accepts
Methods == {"GET", "POST", "PUT", "DELETE", "PATCH", "OPTIONS"}
\* lines 246-258: the content of the request is multipart/form-data, JSON, or
\* anything else
Contents == {"multipart", "json", "raw"}
\* request.args: the query parameters of the inbound request
QueryArgs == {{}, {"a=1", "b=2"}}
\* the inbound requests of the forwarding pipeline
Inbound == [method : Methods, content : Contents, args : QueryArgs]
\* a GET without query parameters
PlainGet == [method |-> "GET", content |-> "raw", args |-> {}]
\* no outbound call has been made
NoCall == [verb |-> "none", params |-> {}, body |-> "none"]

VARIABLES
    now,          \* time.time()
    ticks,        \* number of clock advances so far (bounded)
    budget,       \* number of requests that may still arrive (bounds the run)
    ip_requests,  \* line 31: IP -> deque of request times (keys present only)
    blocked_ips,  \* line 32: IP -> unblock time (keys present only)
    stats,        \* line 33: label -> count (a missing key reads 0)
    th,           \* per worker thread: position and locals of its handler
    hist,         \* history: admission decisions and unblocks, in order
    completed     \* history: number of requests that have responded and whose
                  \* outcome is recorded (the proxied ones, and any other
                  \* that the 500 handler answered)

vars == <<now, ticks, budget, ip_requests, blocked_ips, stats, th, hist, completed>>

----------------------------------------------------------------------------
(* Pure helpers, one per expression of the code.                            *)

\* defaultdict(deque).__getitem__ : reading a missing key inserts an empty deque
DefaultGet(d, k) ==
    IF k \in DOMAIN d THEN d
    ELSE [x \in (DOMAIN d) \cup {k} |-> IF x = k THEN <<>> ELSE d[x]]

\* {} : a dictionary without keys
EmptyDict == [x \in {} |-> 0]

\* del d[k]
DictDel(d, k) == [x \in (DOMAIN d) \ {k} |-> d[x]]

\* d[k] = v
DictSet(d, k, v) == [x \in (DOMAIN d) \cup {k} |-> IF x = k THEN v ELSE d[x]]

\* line 51
OneHourAgo(current_time) == current_time - HourSeconds

\* line 56: ip_requests[ip][0] < one_hour_ago
Stale(t, current_time) == t < OneHourAgo(current_time)

\* a slip: the block is compared with the cutoff of the request log
BlockExpiredAnHourAgo(unblock_time, current_time) == unblock_time < OneHourAgo(current_time)

\* line 63: blocked_ips[ip] < current_time
BlockExpired(unblock_time, current_time) == unblock_time < current_time

\* line 69: blocked_ips[ip] > time.time()
StillBlocked(unblock_time, t) == unblock_time > t

\* lines 67-69: is_ip_blocked(ip), evaluated at time t on the registry b
is_ip_blocked(b, ip, t) == ip \in DOMAIN b /\ StillBlocked(b[ip], t)

\* line 82: sum(1 for t in ip_requests[ip] if t > current_time - 60)
MinuteRequests(log, current_time) ==
    Cardinality({i \in 1..Len(log) : log[i] > current_time - MinuteSeconds})

\* line 85
DDoSDetected(minute_requests) == minute_requests >= DDOS_REQUESTS_PER_MINUTE

\* a slip: the block duration is taken as seconds
BlockUntilSeconds(current_time) == current_time + BLOCK_DURATION_MINUTES

\* line 86
BlockUntil(current_time) == current_time + (BLOCK_DURATION_MINUTES * 60)

\* a slip: the request that reaches the limit is already denied
HourlyExceededAtLimit(hour_count) == hour_count >= REQUESTS_PER_HOUR

\* line 92
HourlyExceeded(hour_count) == hour_count > REQUESTS_PER_HOUR

\* int(x / 60): truncation toward zero
IntDiv60(x) == IF x >= 0 THEN x \div 60 ELSE -((-x) \div 60)

\* lines 283-293: the except clauses
ExceptLabel(res) ==
    CASE res = "Timeout" -> "TIMEOUT"
      [] res = "ConnectionError" -> "CONNECTION_ERROR"
      [] OTHER -> "ERROR"

\* a slip: the Timeout clause is missing, a timeout falls to the last clause
ExceptStatusNoTimeout(res) ==
    CASE res = "ConnectionError" -> 502
      [] OTHER -> 500

ExceptStatus(res) ==
    CASE res = "Timeout" -> 504
      [] res = "ConnectionError" -> 502
      [] OTHER -> 500

\* lines 242-266: the call of the backend made for an admitted request: its
\* verb, the query parameters given as params= (none when the keyword is not
\* passed) and what is sent as its body
BackendCall(method, content, args) ==
    IF method = "GET"
    THEN [verb |-> "GET", params |-> args, body |-> "none"]
    ELSE IF method = "POST"
         THEN IF content = "multipart"
              THEN [verb |-> "POST", params |-> {}, body |-> "form and files"]
              ELSE IF content = "json"
                   THEN [verb |-> "POST", params |-> {}, body |-> "json"]
                   ELSE [verb |-> "POST", params |-> {}, body |-> "raw"]
         ELSE [verb |-> method, params |-> args, body |-> "raw"]

----------------------------------------------------------------------------
(* Thread records.  ct is current_time of cleanup_old_data, rt is           *)
(* current_time of check_rate_limit, tchk the time.time() of is_ip_blocked, *)
(* tmp the value log_request has loaded; calls counts the backend calls of  *)
(* the request and s0 is the shared state when the request arrived; rq is   *)
(* the inbound request and out the call of the backend made for it.         *)

Idle ==
    [pc |-> "idle", op |-> "none", ip |-> "none", ct |-> 0, rt |-> 0, keys |-> {},
     hour_count |-> 0, minute_requests |-> 0, decision |-> "none",
     label |-> "none", ret |-> "none", code |-> 0, tmp |-> 0, tchk |-> 0,
     remaining |-> 0, calls |-> 0, res |-> "none", success |-> FALSE,
     s0 |-> EmptyDict, rq |-> PlainGet, out |-> NoCall]

\* the key the for-loop is at
CurKey(keys) == CHOOSE k \in keys : TRUE

\* log_request(ip, method, path, status, ...) is entered; afterwards the
\* handler continues at ret (and answers with code when ret is "done")
CallLog(r, status, ret, code) ==
    [r EXCEPT !.pc = "lg_load", !.label = status, !.ret = ret, !.code = code]

\* an exception leaves the view function: Flask runs the 500 handler
Raise(r) == [r EXCEPT !.pc = "err500"]

\* lines 128-131, 145-148, 200-204: what follows cleanup_old_data()
AfterCleanup(r) ==
    IF r.op = "proxy" THEN [r EXCEPT !.pc = "ib_in"]
    ELSE [r EXCEPT !.pc = "done", !.code = 200]

\* the for-loops of cleanup_old_data advance to the next key of the snapshot
NextRequestKey(r) ==
    LET ks == r.keys \ {CurKey(r.keys)}
    IN  [r EXCEPT !.keys = ks, !.pc = IF ks = {} THEN "bl_begin" ELSE "cl_while"]

NextBlockedKey(r) ==
    LET ks == r.keys \ {CurKey(r.keys)}
    IN  IF ks = {} THEN AfterCleanup([r EXCEPT !.keys = ks])
        ELSE [r EXCEPT !.keys = ks, !.pc = "bl_test"]

----------------------------------------------------------------------------
Init ==
    /\ now = 0
    /\ ticks = 0
    /\ budget = MaxRequests
    /\ ip_requests = EmptyDict
    /\ blocked_ips = EmptyDict
    /\ stats = [l \in Labels |-> 0]
    /\ th = [t \in Threads |-> Idle]
    /\ hist = <<>>
    /\ completed = 0

\* The state after k requests of client "a", handled one after the other at
\* time 0 with the backend answering: the first REQUESTS_PER_HOUR requests
\* are forwarded and the DDOS_REQUESTS_PER_MINUTE-th is denied and blocks "a".
\* SeqSpec reaches each of these states.
SeedDecision(i) ==
    IF i >= DDOS_REQUESTS_PER_MINUTE THEN "DDOS_BLOCKED" ELSE "ALLOW"

SeedState(k) ==
    /\ now = 0
    /\ ticks = 0
    /\ ip_requests = IF k = 0 THEN EmptyDict ELSE [x \in {"a"} |-> [i \in 1..k |-> 0]]
    /\ blocked_ips = IF k >= DDOS_REQUESTS_PER_MINUTE
                     THEN [x \in {"a"} |-> BLOCK_DURATION_MINUTES * 60]
                     ELSE EmptyDict
    /\ stats = [l \in Labels |->
                  CASE l = "total" -> k
                    [] l = "SUCCESS" -> IF k >= DDOS_REQUESTS_PER_MINUTE
                                        THEN DDOS_REQUESTS_PER_MINUTE - 1 ELSE k
                    [] l = "DDOS_BLOCKED" -> IF k >= DDOS_REQUESTS_PER_MINUTE THEN 1 ELSE 0
                    [] OTHER -> 0]
    /\ th = [t \in Threads |-> Idle]
    /\ hist = [i \in 1..k |-> [ip |-> "a", t |-> 0, d |-> SeedDecision(i)]]
    /\ completed = k

Seed(k) == SeedState(k) /\ budget = ConcMaxRequests

\* the server when concurrent requests arrive: any of these states
ConcInit == \E k \in 0..DDOS_REQUESTS_PER_MINUTE : Seed(k)

\* the program points that read the clock: lines 50, 69, 73 and 205
ClockReaders == {"cl_begin", "ib_get", "rl_time", "blk_rem"}

\* time passes; an advance of the clock is observed only by the next
\* time.time(), so the clock is advanced just before some thread reads it
Tick(maxTicks) ==
    /\ ticks < maxTicks
    /\ \E t \in Threads : th[t].pc \in ClockReaders
    /\ \E d \in ClockSteps : now' = now + d
    /\ ticks' = ticks + 1
    /\ UNCHANGED <<budget, ip_requests, blocked_ips, stats, th, hist, completed>>

\* a request arrives and a worker thread starts its view function
\* (get_real_ip, lines 35-46, yields the client id); /health, /stats and
\* /unblock/<ip> are routes of GET only
Arrive(t, ips, inbound) ==
    /\ th[t].pc = "idle"
    /\ budget > 0
    /\ \E op \in Ops, ip \in ips, rq \in inbound :
         /\ op # "proxy" => rq = PlainGet
         /\ th' = [th EXCEPT ![t] =
                  [Idle EXCEPT !.op = op, !.ip = ip, !.rq = rq,
                               !.pc = IF op = "unblock" THEN "u_test" ELSE "cl_begin",
                               !.s0 = [blocked |-> blocked_ips, reqs |-> ip_requests,
                                       stats |-> stats]]]
    /\ budget' = budget - 1
    /\ UNCHANGED <<now, ticks, ip_requests, blocked_ips, stats, hist, completed>>

\* the same for requests whose forwarding is not looked at: plain GETs
Start(t, ips) == Arrive(t, ips, {PlainGet})

----------------------------------------------------------------------------
(* cleanup_old_data, lines 48-65 *)

\* lines 50-55: current_time = time.time(); list(ip_requests.keys())
cleanup_begin(t) ==
    /\ th[t].pc = "cl_begin"
    /\ th' = [th EXCEPT ![t] =
                [@ EXCEPT !.ct = now, !.keys = DOMAIN ip_requests,
                          !.pc = IF DOMAIN ip_requests = {} THEN "bl_begin"
                                 ELSE "cl_while"]]
    /\ UNCHANGED <<now, ticks, budget, ip_requests, blocked_ips, stats, hist, completed>>

\* line 56: while ip_requests[ip] and ip_requests[ip][0] < one_hour_ago
cleanup_while(t) ==
    /\ th[t].pc = "cl_while"
    /\ LET k == CurKey(th[t].keys)
           d == DefaultGet(ip_requests, k)
       IN  /\ ip_requests' = d
           /\ th' = [th EXCEPT ![t].pc =
                       IF d[k] # <<>> /\ Stale(d[k][1], th[t].ct)
                       THEN "cl_pop" ELSE "cl_if"]
    /\ UNCHANGED <<now, ticks, budget, blocked_ips, stats, hist, completed>>

\* line 57: ip_requests[ip].popleft()  (IndexError on an empty deque)
cleanup_popleft(t) ==
    /\ th[t].pc = "cl_pop"
    /\ LET k == CurKey(th[t].keys)
           d == DefaultGet(ip_requests, k)
       IN  IF d[k] = <<>>
           THEN /\ ip_requests' = d
                /\ th' = [th EXCEPT ![t] = Raise(@)]
           ELSE /\ ip_requests' = [d EXCEPT ![k] = Tail(@)]
                /\ th' = [th EXCEPT ![t].pc = "cl_while"]
    /\ UNCHANGED <<now, ticks, budget, blocked_ips, stats, hist, completed>>

\* a slip: an emptied log is kept
cleanup_if_empty_keeps(t) ==
    /\ th[t].pc = "cl_if"
    /\ LET k == CurKey(th[t].keys)
           d == DefaultGet(ip_requests, k)
       IN  /\ ip_requests' = d
           /\ th' = [th EXCEPT ![t] = NextRequestKey(@)]
    /\ UNCHANGED <<now, ticks, budget, blocked_ips, stats, hist, completed>>

\* lines 56-57 run to their end on one log: the entries at the front that are
\* older than the cutoff are popped
RECURSIVE PruneFront(_, _)
PruneFront(log, current_time) ==
    IF log # <<>> /\ Stale(log[1], current_time)
    THEN PruneFront(Tail(log), current_time)
    ELSE log

\* line 58: if not ip_requests[ip]
cleanup_if_empty(t) ==
    /\ th[t].pc = "cl_if"
    /\ LET k == CurKey(th[t].keys)
           d == DefaultGet(ip_requests, k)
       IN  /\ ip_requests' = d
           /\ th' = [th EXCEPT ![t] =
                       IF d[k] = <<>> THEN [@ EXCEPT !.pc = "cl_del"]
                       ELSE NextRequestKey(@)]
    /\ UNCHANGED <<now, ticks, budget, blocked_ips, stats, hist, completed>>

\* line 59: del ip_requests[ip]  (KeyError when the key is gone)
cleanup_del_log(t) ==
    /\ th[t].pc = "cl_del"
    /\ LET k == CurKey(th[t].keys)
       IN  IF k \in DOMAIN ip_requests
           THEN /\ ip_requests' = DictDel(ip_requests, k)
                /\ th' = [th EXCEPT ![t] = NextRequestKey(@)]
           ELSE /\ UNCHANGED ip_requests
                /\ th' = [th EXCEPT ![t] = Raise(@)]
    /\ UNCHANGED <<now, ticks, budget, blocked_ips, stats, hist, completed>>

\* line 62: list(blocked_ips.keys())
cleanup_blocks_begin(t) ==
    /\ th[t].pc = "bl_begin"
    /\ th' = [th EXCEPT ![t] =
                IF DOMAIN blocked_ips = {} THEN AfterCleanup([@ EXCEPT !.keys = {}])
                ELSE [@ EXCEPT !.keys = DOMAIN blocked_ips, !.pc = "bl_test"]]
    /\ UNCHANGED <<now, ticks, budget, ip_requests, blocked_ips, stats, hist, completed>>

\* line 63: if blocked_ips[ip] < current_time  (KeyError when the key is gone)
cleanup_block_test(t) ==
    /\ th[t].pc = "bl_test"
    /\ LET k == CurKey(th[t].keys)
       IN  th' = [th EXCEPT ![t] =
                    IF k \notin DOMAIN blocked_ips THEN Raise(@)
                    ELSE IF BlockExpired(blocked_ips[k], th[t].ct)
                         THEN [@ EXCEPT !.pc = "bl_del"]
                         ELSE NextBlockedKey(@)]
    /\ UNCHANGED <<now, ticks, budget, ip_requests, blocked_ips, stats, hist, completed>>

\* line 64: del blocked_ips[ip]  (KeyError when the key is gone)
cleanup_block_del(t) ==
    /\ th[t].pc = "bl_del"
    /\ LET k == CurKey(th[t].keys)
       IN  IF k \in DOMAIN blocked_ips
           THEN /\ blocked_ips' = DictDel(blocked_ips, k)
                /\ th' = [th EXCEPT ![t] = NextBlockedKey(@)]
           ELSE /\ UNCHANGED blocked_ips
                /\ th' = [th EXCEPT ![t] = Raise(@)]
    /\ UNCHANGED <<now, ticks, budget, ip_requests, stats, hist, completed>>

----------------------------------------------------------------------------
(* proxy_request, lines 203-212, with is_ip_blocked, lines 67-69 *)

\* line 69, left operand: ip in blocked_ips
is_ip_blocked_in(t) ==
    /\ th[t].pc = "ib_in"
    /\ th' = [th EXCEPT ![t] =
                IF th[t].ip \in DOMAIN blocked_ips
                THEN [@ EXCEPT !.pc = "ib_get"]
                ELSE [@ EXCEPT !.pc = "rl_time"]]
    /\ UNCHANGED <<now, ticks, budget, ip_requests, blocked_ips, stats, hist, completed>>

\* line 69, right operand: blocked_ips[ip] > time.time()  (KeyError when gone)
is_ip_blocked_get(t) ==
    /\ th[t].pc = "ib_get"
    /\ LET ip == th[t].ip
       IN  IF ip \notin DOMAIN blocked_ips
           THEN /\ th' = [th EXCEPT ![t] = Raise(@)]
                /\ UNCHANGED hist
           ELSE IF StillBlocked(blocked_ips[ip], now)
                THEN /\ th' = [th EXCEPT ![t] =
                                 [@ EXCEPT !.pc = "blk_rem", !.tchk = now,
                                           !.decision = "BLOCKED"]]
                     /\ hist' = Append(hist, [ip |-> ip, t |-> now, d |-> "BLOCKED"])
                ELSE /\ th' = [th EXCEPT ![t] =
                                 [@ EXCEPT !.pc = "rl_time", !.tchk = now]]
                     /\ UNCHANGED hist
    /\ UNCHANGED <<now, ticks, budget, ip_requests, blocked_ips, stats, completed>>

\* a slip: a request that meets the block restarts it
blocked_remaining_extends(t) ==
    /\ th[t].pc = "blk_rem"
    /\ LET ip == th[t].ip
       IN  IF ip \notin DOMAIN blocked_ips
           THEN /\ th' = [th EXCEPT ![t] = Raise(@)]
                /\ UNCHANGED blocked_ips
           ELSE /\ th' = [th EXCEPT ![t] =
                            CallLog([@ EXCEPT !.remaining = IntDiv60(blocked_ips[ip] - now)],
                                    "BLOCKED", "blk_resp", 0)]
                /\ blocked_ips' = DictSet(blocked_ips, ip, BlockUntil(now))
    /\ UNCHANGED <<now, ticks, budget, ip_requests, stats, hist, completed>>

\* lines 205-206: remaining_time = int((blocked_ips[ip] - time.time()) / 60);
\* log_request(..., "BLOCKED", ...)
blocked_remaining(t) ==
    /\ th[t].pc = "blk_rem"
    /\ LET ip == th[t].ip
       IN  th' = [th EXCEPT ![t] =
                    IF ip \notin DOMAIN blocked_ips THEN Raise(@)
                    ELSE CallLog([@ EXCEPT !.remaining = IntDiv60(blocked_ips[ip] - now)],
                                 "BLOCKED", "blk_resp", 0)]
    /\ UNCHANGED <<now, ticks, budget, ip_requests, blocked_ips, stats, hist, completed>>

\* lines 207-212: the 429 body reads blocked_ips[ip] again
blocked_response(t) ==
    /\ th[t].pc = "blk_resp"
    /\ th' = [th EXCEPT ![t] =
                IF th[t].ip \notin DOMAIN blocked_ips THEN Raise(@)
                ELSE [@ EXCEPT !.pc = "done", !.code = 429]]
    /\ UNCHANGED <<now, ticks, budget, ip_requests, blocked_ips, stats, hist, completed>>

----------------------------------------------------------------------------
(* check_rate_limit, lines 71-96, and its caller, lines 215-231 *)

\* line 73: current_time = time.time()
rate_time(t) ==
    /\ th[t].pc = "rl_time"
    /\ th' = [th EXCEPT ![t] = [@ EXCEPT !.rt = now, !.pc = "rl_append"]]
    /\ UNCHANGED <<now, ticks, budget, ip_requests, blocked_ips, stats, hist, completed>>

\* line 76: ip_requests[ip].append(current_time)
rate_append(t) ==
    /\ th[t].pc = "rl_append"
    /\ LET ip == th[t].ip
           d == DefaultGet(ip_requests, ip)
       IN  ip_requests' = [d EXCEPT ![ip] = Append(@, th[t].rt)]
    /\ th' = [th EXCEPT ![t].pc = "rl_len"]
    /\ UNCHANGED <<now, ticks, budget, blocked_ips, stats, hist, completed>>

\* line 79: hour_count = len(ip_requests[ip])
rate_hour_count(t) ==
    /\ th[t].pc = "rl_len"
    /\ LET ip == th[t].ip
           d == DefaultGet(ip_requests, ip)
       IN  /\ ip_requests' = d
           /\ th' = [th EXCEPT ![t] =
                       [@ EXCEPT !.hour_count = Len(d[ip]), !.pc = "rl_sum"]]
    /\ UNCHANGED <<now, ticks, budget, blocked_ips, stats, hist, completed>>

\* line 82: minute_requests = sum(1 for t in ip_requests[ip] if t > current_time - 60)
rate_minute_count(t) ==
    /\ th[t].pc = "rl_sum"
    /\ LET ip == th[t].ip
           d == DefaultGet(ip_requests, ip)
       IN  /\ ip_requests' = d
           /\ th' = [th EXCEPT ![t] =
                       [@ EXCEPT !.minute_requests = MinuteRequests(d[ip], th[t].rt),
                                 !.pc = "rl_sum_done"]]
    /\ UNCHANGED <<now, ticks, budget, blocked_ips, stats, hist, completed>>

\* a slip: the hourly check comes first
DecisionHourlyFirst(minute_requests, hour_count) ==
    IF HourlyExceeded(hour_count) THEN "RATE_LIMITED"
    ELSE IF DDoSDetected(minute_requests) THEN "DDOS_BLOCKED"
    ELSE "ALLOW"

\* lines 84-96: the decision of check_rate_limit
Decision(minute_requests, hour_count) ==
    IF DDoSDetected(minute_requests) THEN "DDOS_BLOCKED"
    ELSE IF HourlyExceeded(hour_count) THEN "RATE_LIMITED"
    ELSE "ALLOW"

\* a slip: only a DDoS denial returns early, a rate-limited request goes on
AfterDecisionForwardsRateLimited(r, d) ==
    IF d = "DDOS_BLOCKED" THEN CallLog([r EXCEPT !.decision = d], d, "done", 429)
    ELSE [r EXCEPT !.decision = d, !.pc = "forward"]

\* lines 216-233: what proxy_request does with the decision
AfterDecision(r, d) ==
    IF d = "ALLOW" THEN [r EXCEPT !.decision = d, !.pc = "forward"]
    ELSE CallLog([r EXCEPT !.decision = d], d, "done", 429)

\* a slip: only an admitted request stays recorded, a denied one is taken out
rate_decide_unrecords(t) ==
    /\ th[t].pc = "rl_sum_done"
    /\ LET ip == th[t].ip
           d == Decision(th[t].minute_requests, th[t].hour_count)
       IN  /\ blocked_ips' = IF d = "DDOS_BLOCKED"
                             THEN DictSet(blocked_ips, ip, BlockUntil(th[t].rt))
                             ELSE blocked_ips
           /\ ip_requests' = IF d = "ALLOW" THEN ip_requests
                             ELSE [ip_requests EXCEPT ![ip] = SubSeq(@, 1, Len(@) - 1)]
           /\ th' = [th EXCEPT ![t] = AfterDecision(@, d)]
           /\ hist' = Append(hist, [ip |-> ip, t |-> th[t].rt, d |-> d])
    /\ UNCHANGED <<now, ticks, budget, stats, completed>>

\* lines 85-96 and 216-231
rate_decide(t) ==
    /\ th[t].pc = "rl_sum_done"
    /\ LET ip == th[t].ip
           d == Decision(th[t].minute_requests, th[t].hour_count)
       IN  /\ blocked_ips' = IF d = "DDOS_BLOCKED"
                             THEN DictSet(blocked_ips, ip, BlockUntil(th[t].rt))
                             ELSE blocked_ips
           /\ th' = [th EXCEPT ![t] = AfterDecision(@, d)]
           /\ hist' = Append(hist, [ip |-> ip, t |-> th[t].rt, d |-> d])
    /\ UNCHANGED <<now, ticks, budget, ip_requests, stats, completed>>

----------------------------------------------------------------------------
(* the forwarding try block, lines 234-293 *)

\* lines 283-293 (and 268-281 when the backend answers)
AfterBackend(r, res) ==
    IF res = "ok" THEN CallLog(r, "SUCCESS", "done", 200)
    ELSE CallLog(r, ExceptLabel(res), "done", ExceptStatus(res))

\* lines 234-266: the call of the backend, which answers, times out, cannot
\* be reached, or fails in some other way
forward(t) ==
    /\ th[t].pc = "forward"
    /\ \E res \in BackendResults :
         th' = [th EXCEPT ![t] =
                  AfterBackend([@ EXCEPT !.calls = @ + 1, !.res = res,
                                         !.out = BackendCall(th[t].rq.method,
                                                             th[t].rq.content,
                                                             th[t].rq.args)], res)]
    /\ UNCHANGED <<now, ticks, budget, ip_requests, blocked_ips, stats, hist, completed>>

\* lines 301-305: server_error, for an exception that left the view function
server_error(t) ==
    /\ th[t].pc = "err500"
    /\ th' = [th EXCEPT ![t] = CallLog(@, "SERVER_ERROR", "done", 500)]
    /\ UNCHANGED <<now, ticks, budget, ip_requests, blocked_ips, stats, hist, completed>>

----------------------------------------------------------------------------
(* log_request, lines 98-107: two read-modify-write updates of stats *)

\* line 100, load of stats[status]
log_load_status(t) ==
    /\ th[t].pc = "lg_load"
    /\ th' = [th EXCEPT ![t] = [@ EXCEPT !.tmp = stats[th[t].label], !.pc = "lg_store"]]
    /\ UNCHANGED <<now, ticks, budget, ip_requests, blocked_ips, stats, hist, completed>>

\* line 100, store of stats[status]
log_store_status(t) ==
    /\ th[t].pc = "lg_store"
    /\ stats' = [stats EXCEPT ![th[t].label] = th[t].tmp + 1]
    /\ th' = [th EXCEPT ![t].pc = "lg_load_total"]
    /\ UNCHANGED <<now, ticks, budget, ip_requests, blocked_ips, hist, completed>>

\* line 101, load of stats['total']
log_load_total(t) ==
    /\ th[t].pc = "lg_load_total"
    /\ th' = [th EXCEPT ![t] = [@ EXCEPT !.tmp = stats["total"], !.pc = "lg_store_total"]]
    /\ UNCHANGED <<now, ticks, budget, ip_requests, blocked_ips, stats, hist, completed>>

\* line 101, store of stats['total']; lines 103-107 write the log line
log_store_total(t) ==
    /\ th[t].pc = "lg_store_total"
    /\ stats' = [stats EXCEPT !["total"] = th[t].tmp + 1]
    /\ th' = [th EXCEPT ![t].pc = th[t].ret]
    /\ UNCHANGED <<now, ticks, budget, ip_requests, blocked_ips, hist, completed>>

----------------------------------------------------------------------------
(* unblock_ip, lines 182-190 *)

\* a slip: the entry is removed only when its time has run out
UnblockedOnlyExpired(b, ip) == IF StillBlocked(b[ip], now) THEN b ELSE DictDel(b, ip)

\* line 186: del blocked_ips[ip]
Unblocked(b, ip) == DictDel(b, ip)

\* line 185: if ip in blocked_ips ... else (line 190)
unblock_test(t) ==
    /\ th[t].pc = "u_test"
    /\ th' = [th EXCEPT ![t] =
                IF th[t].ip \in DOMAIN blocked_ips
                THEN [@ EXCEPT !.pc = "u_del"]
                ELSE [@ EXCEPT !.pc = "done", !.success = FALSE, !.code = 200]]
    /\ UNCHANGED <<now, ticks, budget, ip_requests, blocked_ips, stats, hist, completed>>

\* a slip: the unblock also forgets the requests of the client
unblock_del_resets(t) ==
    /\ th[t].pc = "u_del"
    /\ LET ip == th[t].ip
       IN  IF ip \in DOMAIN blocked_ips
           THEN /\ blocked_ips' = Unblocked(blocked_ips, ip)
                /\ ip_requests' = DictDel(ip_requests, ip)
                /\ th' = [th EXCEPT ![t] =
                            [@ EXCEPT !.pc = "done", !.success = TRUE, !.code = 200]]
                /\ hist' = Append(hist, [ip |-> ip, t |-> now, d |-> "UNBLOCK"])
           ELSE /\ UNCHANGED <<blocked_ips, ip_requests, hist>>
                /\ th' = [th EXCEPT ![t] = Raise(@)]
    /\ UNCHANGED <<now, ticks, budget, stats, completed>>

\* lines 186-188: del blocked_ips[ip]  (KeyError when the key is gone)
unblock_del(t) ==
    /\ th[t].pc = "u_del"
    /\ LET ip == th[t].ip
       IN  IF ip \in DOMAIN blocked_ips
           THEN /\ blocked_ips' = Unblocked(blocked_ips, ip)
                /\ th' = [th EXCEPT ![t] =
                            [@ EXCEPT !.pc = "done", !.success = TRUE, !.code = 200]]
                /\ hist' = Append(hist, [ip |-> ip, t |-> now, d |-> "UNBLOCK"])
           ELSE /\ UNCHANGED <<blocked_ips, hist>>
                /\ th' = [th EXCEPT ![t] = Raise(@)]
    /\ UNCHANGED <<now, ticks, budget, ip_requests, stats, completed>>

----------------------------------------------------------------------------
\* the response is sent and the worker thread is free again
Finish(t) ==
    /\ th[t].pc = "done"
    /\ th' = [th EXCEPT ![t] = Idle]
    /\ completed' = IF th[t].op = "proxy" \/ th[t].label # "none"
                    THEN completed + 1 ELSE completed
    /\ UNCHANGED <<now, ticks, budget, ip_requests, blocked_ips, stats, hist>>

\* one step of the handler that thread t runs, no exception having left it
Handler(t) ==
    \/ cleanup_begin(t)
    \/ cleanup_while(t)
    \/ cleanup_popleft(t)
    \/ cleanup_if_empty(t)
    \/ cleanup_del_log(t)
    \/ cleanup_blocks_begin(t)
    \/ cleanup_block_test(t)
    \/ cleanup_block_del(t)
    \/ is_ip_blocked_in(t)
    \/ is_ip_blocked_get(t)
    \/ blocked_remaining(t)
    \/ blocked_response(t)
    \/ rate_time(t)
    \/ rate_append(t)
    \/ rate_hour_count(t)
    \/ rate_minute_count(t)
    \/ rate_decide(t)
    \/ forward(t)
    \/ log_load_status(t)
    \/ log_store_status(t)
    \/ log_load_total(t)
    \/ log_store_total(t)
    \/ unblock_test(t)
    \/ unblock_del(t)
    \/ Finish(t)

\* one step of thread t
Step(t) ==
    \/ Handler(t)
    \/ server_error(t)

\* app.run(threaded=True), line 325: requests are handled by concurrent threads
Next ==
    \/ Tick(ConcMaxTicks)
    \/ \E t \in Threads : Start(t, ConcIPs)
    \/ \E t \in Threads : Step(t)

Spec == ConcInit /\ [][Next]_vars

\* the same handlers when requests arrive one at a time: one worker thread
SeqNext ==
    \/ Tick(MaxTicks)
    \/ Start(1, IPs)
    \/ Handler(1)

SeqSpec == Init /\ [][SeqNext]_vars

\* a client one request short of the DDoS threshold goes on: requests handled
\* one at a time from the state after its first requests
BurstInit == SeedState(DDOS_REQUESTS_PER_MINUTE - 1) /\ budget = BurstMaxRequests

BurstSpec == BurstInit /\ [][SeqNext]_vars

\* the forwarding pipeline: the server has just started and one request of
\* any method, content and query arrives; these are the steps its handler
\* takes (no log, no block and no other request exists)
FwdInit ==
    /\ now = 0
    /\ ticks = 0
    /\ budget = FwdMaxRequests
    /\ ip_requests = EmptyDict
    /\ blocked_ips = EmptyDict
    /\ stats = [l \in Labels |-> 0]
    /\ th = [t \in Threads |-> Idle]
    /\ hist = <<>>
    /\ completed = 0

FwdHandler(t) ==
    \/ cleanup_begin(t)
    \/ cleanup_blocks_begin(t)
    \/ is_ip_blocked_in(t)
    \/ rate_time(t)
    \/ rate_append(t)
    \/ rate_hour_count(t)
    \/ rate_minute_count(t)
    \/ rate_decide(t)
    \/ forward(t)
    \/ log_load_status(t)
    \/ log_store_status(t)
    \/ log_load_total(t)
    \/ log_store_total(t)
    \/ unblock_test(t)
    \/ Finish(t)

FwdNext ==
    \/ Arrive(1, IPs, Inbound)
    \/ FwdHandler(1)

FwdSpec == FwdInit /\ [][FwdNext]_vars

----------------------------------------------------------------------------
(* The history of one client, read from hist.                               *)

\* the positions of hist that are proxied requests of client ip
Requests(ip) == {i \in 1..Len(hist) : hist[i].ip = ip /\ hist[i].d # "UNBLOCK"}

\* those that reached check_rate_limit, and so were recorded
Recorded(ip) == {i \in Requests(ip) : hist[i].d # "BLOCKED"}

\* request i is the Ordinal(ip, i)-th proxied request of client ip
Ordinal(ip, i) == Cardinality({j \in Requests(ip) : j <= i})

\* the requests of ip recorded in the 60 seconds up to recorded request i
MinuteCountAt(ip, i) ==
    Cardinality({j \in Recorded(ip) : j <= i /\ hist[j].t > hist[i].t - MinuteSeconds})

\* the first request of ip
FirstRequest(ip) == CHOOSE i \in Requests(ip) : \A j \in Requests(ip) : i <= j

----------------------------------------------------------------------------
\* C1: for a client without prior history whose requests all fall inside one
\* rolling hour and never reach the per-minute DDoS threshold, requests
\* 1..REQUESTS_PER_HOUR are admitted and request REQUESTS_PER_HOUR+1 is
\* denied with RATE_LIMITED.
C1_HourlyQuota ==
    \A ip \in IPs : \A i \in Requests(ip) :
        (/\ hist[i].t - hist[FirstRequest(ip)].t < HourSeconds
         /\ \A j \in Requests(ip) :
               j <= i => /\ j \in Recorded(ip)
                         /\ MinuteCountAt(ip, j) < DDOS_REQUESTS_PER_MINUTE)
        => /\ Ordinal(ip, i) <= REQUESTS_PER_HOUR => hist[i].d = "ALLOW"
           /\ Ordinal(ip, i) = REQUESTS_PER_HOUR + 1 => hist[i].d = "RATE_LIMITED"

\* the third request of "a", a minute after two admitted ones, is rate limited
C1_Witness ==
    /\ Len(hist) = REQUESTS_PER_HOUR + 1
    /\ \A i \in 1..Len(hist) : hist[i].ip = "a"
    /\ \A i \in 1..REQUESTS_PER_HOUR : hist[i].d = "ALLOW"
    /\ hist[REQUESTS_PER_HOUR + 1].d = "RATE_LIMITED"
    /\ hist[REQUESTS_PER_HOUR + 1].t - hist[1].t < HourSeconds

----------------------------------------------------------------------------
\* the block that DDOS_BLOCKED request i created is still in force at request j:
\* no manual unblock in between, and less than the block duration has passed
BlockInForce(ip, i, j) ==
    /\ i < j
    /\ hist[i].d = "DDOS_BLOCKED"
    /\ hist[j].t < hist[i].t + BLOCK_DURATION_MINUTES * 60
    /\ \A u \in i..j : ~(hist[u].ip = ip /\ hist[u].d = "UNBLOCK")

\* C2: the request that makes the client's count of requests in the trailing
\* 60 seconds reach DDOS_REQUESTS_PER_MINUTE is denied with DDOS_BLOCKED (the
\* earlier requests of a first burst having been admitted), and every later
\* request of the client before the block duration has passed since it, with
\* no manual unblock in between, is denied with BLOCKED and never forwarded.
C2_DdosBlock ==
    /\ \A ip \in IPs : \A i \in Recorded(ip) :
          MinuteCountAt(ip, i) >= DDOS_REQUESTS_PER_MINUTE
          => /\ hist[i].d = "DDOS_BLOCKED"
             /\ Ordinal(ip, i) = DDOS_REQUESTS_PER_MINUTE
                => \A j \in Requests(ip) :
                      (j < i /\ Ordinal(ip, j) <= REQUESTS_PER_HOUR)
                      => hist[j].d = "ALLOW"
    /\ \A ip \in IPs : \A i \in Requests(ip) : \A j \in Requests(ip) :
          BlockInForce(ip, i, j) => hist[j].d = "BLOCKED"
    /\ \A t \in Threads : th[t].decision = "BLOCKED" =>
          th[t].calls = 0 /\ th[t].pc # "forward"

\* a burst is blocked, and a request half a minute later is answered BLOCKED
C2_Witness ==
    \E i, j \in 1..Len(hist) :
        /\ BlockInForce("a", i, j)
        /\ hist[j].ip = "a"
        /\ hist[j].d = "BLOCKED"
        /\ hist[j].t > hist[i].t
        /\ \E t \in Threads : th[t].pc = "done" /\ th[t].decision = "BLOCKED"

----------------------------------------------------------------------------
CleanupPcs == {"cl_begin", "cl_while", "cl_pop", "cl_if", "cl_del",
               "bl_begin", "bl_test", "bl_del"}

\* thread t has run cleanup_old_data() to its end in the current request
CleanupDone(t) ==
    /\ th[t].op \in {"proxy", "status"}
    /\ th[t].pc \notin CleanupPcs \cup {"idle", "err500"}

\* the requests of ip that were denied with DDOS_BLOCKED, creating a block
Escalations(ip) == {i \in Requests(ip) : hist[i].d = "DDOS_BLOCKED"}

\* the last of them before position j
LastEscalation(ip, j) ==
    CHOOSE i \in Escalations(ip) :
        i < j /\ \A k \in Escalations(ip) : k < j => k <= i

\* C3: once more than the block duration has passed since a block was created,
\* the sweep run by a proxied request, /health or /stats leaves no entry of
\* that block in the registry, and a request of the client that comes when the
\* block duration has passed is not answered BLOCKED: it is recorded in the
\* request log and decided by the hourly and DDoS rules.
C3_BlockExpires ==
    /\ \A t \in Threads : CleanupDone(t) =>
          \A ip \in DOMAIN blocked_ips :
             /\ Escalations(ip) # {}
             /\ hist[LastEscalation(ip, Len(hist) + 1)].t + BLOCK_DURATION_MINUTES * 60
                    >= th[t].ct
    /\ \A ip \in IPs : \A j \in Requests(ip) :
          (/\ \E i \in Escalations(ip) : i < j
           /\ hist[j].t >= hist[LastEscalation(ip, j)].t + BLOCK_DURATION_MINUTES * 60)
          => hist[j].d \in {"ALLOW", "RATE_LIMITED", "DDOS_BLOCKED"}
    /\ \A t \in Threads :
          (th[t].pc = "done" /\ th[t].op = "proxy" /\ th[t].decision # "BLOCKED")
          => /\ th[t].ip \in DOMAIN ip_requests
             /\ ip_requests[th[t].ip] # <<>>
             /\ ip_requests[th[t].ip][Len(ip_requests[th[t].ip])] = th[t].rt

\* "a" was blocked, more than the block duration later its request is swept,
\* found not blocked, recorded and decided by the hourly rule
C3_Witness ==
    \E t \in Threads :
        /\ th[t].pc = "done" /\ th[t].op = "proxy" /\ th[t].ip = "a"
        /\ th[t].decision = "RATE_LIMITED"
        /\ "a" \notin DOMAIN blocked_ips
        /\ \A u \in 1..Len(hist) : hist[u].d # "UNBLOCK"
        /\ \E i \in Escalations("a") :
              /\ i < Len(hist)
              /\ hist[i].t + BLOCK_DURATION_MINUTES * 60 < th[t].ct

----------------------------------------------------------------------------
\* C4: /unblock/<ip> on a blocked client removes its entry whatever time the
\* block had left, so that is_ip_blocked is false, and answers success; on a
\* client without an entry it answers that nothing was blocked; in both cases
\* nothing else of the state changes and no error is raised.
C4_ManualUnblock ==
    \A t \in Threads :
        (th[t].op = "unblock" /\ th[t].pc \in {"done", "err500"}) =>
            /\ th[t].pc = "done"
            /\ th[t].code = 200
            /\ ~is_ip_blocked(blocked_ips, th[t].ip, now)
            /\ th[t].ip \notin DOMAIN blocked_ips
            /\ th[t].success = (th[t].ip \in DOMAIN th[t].s0.blocked)
            /\ \A k \in DOMAIN th[t].s0.blocked :
                  k # th[t].ip => k \in DOMAIN blocked_ips
                                  /\ blocked_ips[k] = th[t].s0.blocked[k]
            /\ DOMAIN blocked_ips \subseteq DOMAIN th[t].s0.blocked
            /\ ip_requests = th[t].s0.reqs
            /\ stats = th[t].s0.stats

\* a block with time left is removed by hand
C4_Witness ==
    \E t \in Threads :
        /\ th[t].op = "unblock" /\ th[t].pc = "done" /\ th[t].success
        /\ th[t].ip \in DOMAIN th[t].s0.blocked
        /\ th[t].s0.blocked[th[t].ip] > now
        /\ th[t].ip \notin DOMAIN blocked_ips

----------------------------------------------------------------------------
\* thread t runs a proxied request that check_rate_limit has decided
Decided(t) ==
    /\ th[t].op = "proxy"
    /\ th[t].decision \in {"ALLOW", "RATE_LIMITED", "DDOS_BLOCKED"}

\* C5: two requests of one client that are in flight together, both having
\* arrived when the client had REQUESTS_PER_HOUR-1 requests recorded in the
\* trailing hour and none in the trailing minute, end with exactly one of
\* them admitted and the other denied.
C5_ExactlyOneAdmitted ==
    \A t1 \in Threads : \A t2 \in Threads :
        (/\ t1 # t2
         /\ Decided(t1) /\ Decided(t2)
         /\ th[t1].ip = th[t2].ip
         /\ th[t1].s0.reqs = th[t2].s0.reqs
         /\ th[t1].ip \in DOMAIN th[t1].s0.reqs
         /\ LET log == th[t1].s0.reqs[th[t1].ip]
            IN  /\ Len(log) = REQUESTS_PER_HOUR - 1
                /\ \A i \in 1..Len(log) : \A t \in {t1, t2} :
                      /\ log[i] > th[t].rt - HourSeconds
                      /\ log[i] <= th[t].rt - MinuteSeconds)
        => \/ th[t1].decision = "ALLOW" /\ th[t2].decision # "ALLOW"
           \/ th[t1].decision # "ALLOW" /\ th[t2].decision = "ALLOW"

----------------------------------------------------------------------------
----------------------------------------------------------------------------
\* the sum of the counters of the outcome labels
LabelSum ==
    stats["SUCCESS"] + stats["BLOCKED"] + stats["DDOS_BLOCKED"]
    + stats["RATE_LIMITED"] + stats["TIMEOUT"] + stats["CONNECTION_ERROR"]
    + stats["ERROR"] + stats["SERVER_ERROR"]

\* C7: every proxied request adds one to one label counter and one to the
\* total before it responds, so when no request is in flight, also after
\* requests were handled concurrently, the total equals the number of
\* such requests that have completed and the sum of the label counters.
C7_TallyMatchesCompleted ==
    (\A t \in Threads : th[t].pc = "idle")
    => /\ stats["total"] = completed
       /\ stats["total"] = LabelSum

----------------------------------------------------------------------------
\* C8: a failure of the backend call of an admitted request is answered and
\* recorded, never raised out of the handler: a timeout is TIMEOUT with 504,
\* an unreachable backend CONNECTION_ERROR with 502, any other failure ERROR
\* with 500, and the thread goes on to serve requests.
C8_ForwardingFailures ==
    \A t \in Threads :
        th[t].res \in BackendResults \ {"ok"} =>
            /\ th[t].decision = "ALLOW"
            /\ th[t].pc \in {"lg_load", "lg_store", "lg_load_total",
                             "lg_store_total", "done"}
            /\ th[t].label = (CASE th[t].res = "Timeout" -> "TIMEOUT"
                                [] th[t].res = "ConnectionError" -> "CONNECTION_ERROR"
                                [] th[t].res = "Exception" -> "ERROR")
            /\ th[t].code = (CASE th[t].res = "Timeout" -> 504
                               [] th[t].res = "ConnectionError" -> 502
                               [] th[t].res = "Exception" -> 500)
            /\ th[t].pc = "done" =>
                  /\ stats[th[t].label] = th[t].s0.stats[th[t].label] + 1
                  /\ stats["total"] = th[t].s0.stats["total"] + 1
                  /\ ENABLED Finish(t)

\* a backend timeout has been answered with 504 and counted as TIMEOUT
C8_Witness ==
    \E t \in Threads :
        /\ th[t].pc = "done" /\ th[t].res = "Timeout"
        /\ th[t].code = 504 /\ stats["TIMEOUT"] > 0

----------------------------------------------------------------------------
\* C9: when the recorded request has minute_requests >= DDOS_REQUESTS_PER_MINUTE
\* and hour_count > REQUESTS_PER_HOUR together, it is denied as DDoS, not as
\* rate limited, and the client's block is set to the request's time plus the
\* block duration; a RATE_LIMITED denial occurs only below the DDoS threshold
\* and creates no block.
C9_DdosPrecedence ==
    \A t \in Threads : Decided(t) =>
        /\ (/\ th[t].minute_requests >= DDOS_REQUESTS_PER_MINUTE
            /\ th[t].hour_count > REQUESTS_PER_HOUR)
           => /\ th[t].decision = "DDOS_BLOCKED"
              /\ th[t].ip \in DOMAIN blocked_ips
              /\ blocked_ips[th[t].ip] = th[t].rt + BLOCK_DURATION_MINUTES * 60
        /\ th[t].decision = "RATE_LIMITED"
           => /\ th[t].minute_requests < DDOS_REQUESTS_PER_MINUTE
              /\ \A k \in DOMAIN blocked_ips :
                    k \in DOMAIN th[t].s0.blocked
                    /\ blocked_ips[k] = th[t].s0.blocked[k]

\* both thresholds are passed at once and the request is denied as DDoS
C9_Witness ==
    \E t \in Threads :
        /\ Decided(t)
        /\ th[t].minute_requests >= DDOS_REQUESTS_PER_MINUTE
        /\ th[t].hour_count > REQUESTS_PER_HOUR
        /\ th[t].decision = "DDOS_BLOCKED"
        /\ th[t].ip \notin DOMAIN th[t].s0.blocked
        /\ blocked_ips[th[t].ip] = th[t].rt + BLOCK_DURATION_MINUTES * 60

----------------------------------------------------------------------------
\* C10: when a proxied request is found not blocked, the sweep of that same
\* request having run at the same instant, the registry holds no entry of the
\* client with unblock time <= now, the instant unblock time = now included.
C10_PurgedBeforeAbsent ==
    \A t \in Threads :
        (/\ th[t].op = "proxy"
         /\ th[t].pc = "rl_time"
         /\ th[t].ip \in DOMAIN blocked_ips
         /\ th[t].tchk = th[t].ct)
        => blocked_ips[th[t].ip] > th[t].tchk

----------------------------------------------------------------------------
\* C11: while a client's block is active no request of the client changes its
\* unblock time: a request answered BLOCKED leaves the entry as it found it,
\* so the entry always ends the block duration after the request that
\* triggered it, however many requests arrive during the block.
C11_BlockNotExtended ==
    /\ \A ip \in DOMAIN blocked_ips :
          /\ Escalations(ip) # {}
          /\ blocked_ips[ip] =
                hist[LastEscalation(ip, Len(hist) + 1)].t + BLOCK_DURATION_MINUTES * 60
    /\ \A t \in Threads :
          (th[t].op = "proxy" /\ th[t].decision = "BLOCKED") =>
              /\ th[t].ip \in DOMAIN th[t].s0.blocked
              /\ th[t].ip \in DOMAIN blocked_ips
              /\ blocked_ips[th[t].ip] = th[t].s0.blocked[th[t].ip]

\* half a minute into its block "a" was answered BLOCKED and the block still
\* ends a minute after the request that triggered it
C11_Witness ==
    \E t \in Threads :
        /\ th[t].pc = "done" /\ th[t].op = "proxy" /\ th[t].decision = "BLOCKED"
        /\ th[t].tchk > hist[LastEscalation(th[t].ip, Len(hist))].t
        /\ blocked_ips[th[t].ip] > now
        /\ blocked_ips[th[t].ip] =
              hist[LastEscalation(th[t].ip, Len(hist))].t + BLOCK_DURATION_MINUTES * 60

----------------------------------------------------------------------------
\* the entries of log that lie in the hour up to time t, the instant t - 1h
\* itself excluded
TrailingHour(log, t) == {i \in 1..Len(log) : log[i] > t - HourSeconds}

\* C12: right after the sweep of the request logs at time current_time every
\* entry left in every log is strictly later than current_time - 1h, an entry
\* exactly at the cutoff having been removed, so the hour_count of the
\* decision that follows counts only the requests of the trailing hour.
C12_SweptToTrailingHour ==
    \A t \in Threads :
        /\ (th[t].op \in {"proxy", "status"} /\ th[t].pc = "bl_begin") =>
              \A ip \in DOMAIN ip_requests :
                 \A i \in 1..Len(ip_requests[ip]) :
                    ip_requests[ip][i] > th[t].ct - HourSeconds
        /\ (th[t].op = "proxy" /\ th[t].pc = "rl_sum_done" /\ th[t].rt = th[t].ct) =>
              th[t].hour_count =
                 Cardinality(TrailingHour(ip_requests[th[t].ip], th[t].rt))

----------------------------------------------------------------------------
\* C13: once a sweep has run to its end no client is mapped to an empty
\* request log: a client whose recorded requests are all older than the
\* hourly window has had its log deleted by that sweep, and a client has a
\* log only when a request of it was recorded.
C13_NoEmptyLog ==
    /\ \A t \in Threads : CleanupDone(t) =>
          /\ \A ip \in DOMAIN ip_requests : ip_requests[ip] # <<>>
          /\ \A ip \in IPs :
                (\A i \in Recorded(ip) : hist[i].t < th[t].ct - HourSeconds)
                => \/ ip \notin DOMAIN ip_requests
                   \/ /\ ip = th[t].ip
                      /\ th[t].pc \notin {"ib_in", "ib_get", "rl_time", "rl_append"}
    /\ \A ip \in DOMAIN ip_requests :
          \/ Recorded(ip) # {}
          \/ \E t \in Threads : th[t].ip = ip /\ th[t].pc \in {"rl_len", "rl_sum", "rl_sum_done"}

\* the only request of "a" is older than the hour when a sweep ends, and "a"
\* has no log any more
C13_Witness ==
    \E t \in Threads :
        /\ th[t].op \in {"proxy", "status"}
        /\ th[t].pc \in {"ib_in", "done"}
        /\ th[t].decision = "none"
        /\ Recorded("a") # {}
        /\ \A i \in Recorded("a") : hist[i].t < th[t].ct - HourSeconds
        /\ "a" \notin DOMAIN ip_requests

----------------------------------------------------------------------------
\* C14: the admission path of a proxied request (sweep, block lookup, reading
\* the unblock time for the BLOCKED answer, recording and deciding) never
\* raises, whatever other proxied requests, sweeps of /health or /stats and
\* manual unblocks run at the same time: it never looks up or deletes a block
\* entry or a request log that another handler has removed.
C14_AdmissionNeverRaises ==
    \A t \in Threads : th[t].op = "proxy" => th[t].pc # "err500"

----------------------------------------------------------------------------
\* C15: in every reachable state, also after requests of one client were
\* handled at the same time, each client's request log is ordered by
\* timestamp, non-decreasing, so that removing from the front removes every
\* entry older than the cutoff.
C15_LogOrdered ==
    \A ip \in DOMAIN ip_requests :
        \A i \in 1..Len(ip_requests[ip]) : \A j \in 1..Len(ip_requests[ip]) :
            i < j => ip_requests[ip][i] <= ip_requests[ip][j]

----------------------------------------------------------------------------
\* the requests recorded in the log in the 60 seconds up to time t
TrailingMinute(log, t) == {i \in 1..Len(log) : log[i] > t - MinuteSeconds}

\* C16: of two requests of one client that are in flight together, both
\* having arrived when the client was not blocked and had
\* DDOS_REQUESTS_PER_MINUTE-1 requests in the trailing minute, and no time
\* having passed since, at most one is answered DDOS_BLOCKED and writes the
\* block; the other is answered BLOCKED.
C16_SingleEscalation ==
    \A t1 \in Threads : \A t2 \in Threads :
        (/\ t1 # t2
         /\ th[t1].op = "proxy" /\ th[t2].op = "proxy"
         /\ th[t1].decision # "none" /\ th[t2].decision # "none"
         /\ th[t1].ip = th[t2].ip
         /\ th[t1].s0.reqs = th[t2].s0.reqs
         /\ th[t1].s0.blocked = th[t2].s0.blocked
         /\ th[t1].ip \notin DOMAIN th[t1].s0.blocked
         /\ th[t1].ip \in DOMAIN th[t1].s0.reqs
         /\ \A t \in {t1, t2} :
               /\ th[t].ct = now
               /\ Cardinality(TrailingMinute(th[t].s0.reqs[th[t].ip], th[t].ct))
                     = DDOS_REQUESTS_PER_MINUTE - 1)
        => \/ th[t1].decision = "DDOS_BLOCKED" /\ th[t2].decision = "BLOCKED"
           \/ th[t1].decision = "BLOCKED" /\ th[t2].decision = "DDOS_BLOCKED"

----------------------------------------------------------------------------
\* thread t runs a proxied request whose timestamp line 76 has appended
Appended(t) ==
    /\ th[t].op = "proxy"
    /\ \/ th[t].pc \in {"rl_len", "rl_sum", "rl_sum_done", "forward"}
       \/ th[t].decision \in {"ALLOW", "RATE_LIMITED", "DDOS_BLOCKED"}

\* C17: a sweep never discards a request recorded inside the trailing hour,
\* also when it runs at the same time as the recording of a request of the
\* same client: the timestamp appended by check_rate_limit stays in the
\* client's log, and is counted by the request's own hour_count and
\* minute_requests, until it is older than the hourly window.
C17_SweepKeepsFresh ==
    \A t \in Threads :
        (Appended(t) /\ now - th[t].rt < HourSeconds) =>
            /\ th[t].ip \in DOMAIN ip_requests
            /\ \E i \in 1..Len(ip_requests[th[t].ip]) :
                  ip_requests[th[t].ip][i] = th[t].rt
            /\ th[t].pc \notin {"rl_len", "err500"} => th[t].hour_count >= 1
            /\ th[t].pc \notin {"rl_len", "rl_sum", "err500"} => th[t].minute_requests >= 1

----------------------------------------------------------------------------
\* C18: the call of the backend made for an admitted request carries the
\* query parameters of the inbound request: for GET, for POST whose content
\* is neither multipart nor JSON (forwarded as raw body bytes), and for every
\* other method (PUT, PATCH, DELETE, OPTIONS).
C18_QueryForwarded ==
    \A t \in Threads :
        (/\ th[t].op = "proxy"
         /\ th[t].calls = 1
         /\ \/ th[t].rq.method # "POST"
            \/ th[t].rq.content = "raw")
        => /\ th[t].out.verb = th[t].rq.method
           /\ th[t].out.params = th[t].rq.args

----------------------------------------------------------------------------
\* the log of ip, empty when ip has none
LogOf(d, ip) == IF ip \in DOMAIN d THEN d[ip] ELSE <<>>

\* the log of the client of thread t as its request found it, after the sweep
\* the request ran
SweptLog(t) == PruneFront(LogOf(th[t].s0.reqs, th[t].ip), th[t].ct)

\* C19: every request that reaches check_rate_limit is appended to the
\* client's log whatever the decision, so requests denied as RATE_LIMITED or
\* DDOS_BLOCKED, and admitted requests whose backend call fails, count in the
\* hour_count and minute_requests of later requests; a request answered
\* BLOCKED is not recorded and leaves the log as the sweep left it.
C19_RecordedWhateverDecision ==
    \A t \in Threads :
        /\ Decided(t) =>
              /\ LogOf(ip_requests, th[t].ip) = Append(SweptLog(t), th[t].rt)
              /\ th[t].hour_count =
                    Cardinality({j \in Recorded(th[t].ip) :
                                    hist[j].t >= th[t].ct - HourSeconds})
              /\ th[t].minute_requests =
                    Cardinality({j \in Recorded(th[t].ip) :
                                    hist[j].t > th[t].rt - MinuteSeconds})
        /\ (th[t].op = "proxy" /\ th[t].decision = "BLOCKED") =>
              LogOf(ip_requests, th[t].ip) = SweptLog(t)

\* a request of "a" is denied as rate limited and its hour_count counts an
\* earlier request that was denied too
C19_Witness ==
    \E t \in Threads :
        /\ th[t].pc = "done" /\ Decided(t) /\ th[t].decision = "RATE_LIMITED"
        /\ th[t].hour_count = REQUESTS_PER_HOUR + 2
        /\ \E j \in Recorded(th[t].ip) :
              /\ j < Len(hist)
              /\ hist[j].d \in {"RATE_LIMITED", "DDOS_BLOCKED"}
              /\ hist[j].t >= th[t].ct - HourSeconds

----------------------------------------------------------------------------
\* thread t runs the proxied request, decided by check_rate_limit, that is
\* the first of its client after a manual unblock of the block that the
\* request at position i of hist created
FirstAfterUnblock(t, i) ==
    /\ Decided(t)
    /\ Len(hist) >= 3
    /\ hist[Len(hist)] = [ip |-> th[t].ip, t |-> th[t].rt, d |-> th[t].decision]
    /\ hist[Len(hist) - 1].d = "UNBLOCK"
    /\ hist[Len(hist) - 1].ip = th[t].ip
    /\ Escalations(th[t].ip) \cap 1..(Len(hist) - 2) # {}
    /\ i = LastEscalation(th[t].ip, Len(hist) - 1)

\* C20 as stated: manual unblock leaves the client's log unchanged, so a
\* client unblocked less than 60 seconds after the request that triggered its
\* block is, on its very next proxied request, denied again with DDOS_BLOCKED
\* and given a new block that ends that request's time plus the block duration.
\* Read in the claim's favour: that next request, too, comes less than 60
\* seconds after the request that triggered the block.
C20_ReblockedAfterUnblock ==
    /\ \A t \in Threads :
          (th[t].op = "unblock" /\ th[t].pc = "done") => ip_requests = th[t].s0.reqs
    /\ \A t \in Threads : \A i \in 1..Len(hist) :
          (/\ FirstAfterUnblock(t, i)
           /\ hist[Len(hist) - 1].t < hist[i].t + MinuteSeconds
           /\ th[t].rt < hist[i].t + MinuteSeconds)
          => /\ th[t].decision = "DDOS_BLOCKED"
             /\ th[t].ip \in DOMAIN blocked_ips
             /\ blocked_ips[th[t].ip] = th[t].rt + BLOCK_DURATION_MINUTES * 60

\* C20, amended: manual unblock leaves the client's log unchanged, so the
\* first proxied request of an unblocked client is denied again with
\* DDOS_BLOCKED, and given a new block that ends that request's time plus the
\* block duration, exactly when DDOS_REQUESTS_PER_MINUTE-1 or more requests
\* recorded before the unblock still lie in the 60 seconds before it;
\* otherwise it is decided by the hourly rule and no block is created.
C20_ReblockedWhileBurstInMinute ==
    /\ \A t \in Threads :
          (th[t].op = "unblock" /\ th[t].pc = "done") => ip_requests = th[t].s0.reqs
    /\ \A t \in Threads : \A i \in 1..Len(hist) :
          FirstAfterUnblock(t, i) =>
             IF MinuteCountAt(th[t].ip, Len(hist)) >= DDOS_REQUESTS_PER_MINUTE
             THEN /\ th[t].decision = "DDOS_BLOCKED"
                  /\ th[t].ip \in DOMAIN blocked_ips
                  /\ blocked_ips[th[t].ip] = th[t].rt + BLOCK_DURATION_MINUTES * 60
             ELSE /\ th[t].decision =
                        (IF HourlyExceeded(th[t].hour_count) THEN "RATE_LIMITED" ELSE "ALLOW")
                  /\ th[t].ip \notin DOMAIN blocked_ips

\* "a" is blocked at time 0 and unblocked by hand; its next request, half a
\* minute later, is denied as DDoS again and blocked until a minute after it
C20_Witness ==
    \E t \in Threads : \E i \in 1..Len(hist) :
        /\ FirstAfterUnblock(t, i)
        /\ th[t].pc = "done"
        /\ th[t].rt > hist[i].t
        /\ th[t].decision = "DDOS_BLOCKED"
        /\ blocked_ips[th[t].ip] = th[t].rt + BLOCK_DURATION_MINUTES * 60
        /\ LogOf(th[t].s0.reqs, th[t].ip) # <<>>

====
